---- MODULE Spec2Model ----
(***************************************************************************)
(* TutorIA backend: quiz scoring (services/quiz_service.py) and the quiz   *)
(* lifecycle of the HTTP handlers (main.py).                               *)
(*                                                                         *)
(* Scores are Python floats.  A float is modelled as an IEEE-754 binary64  *)
(* value: the record [m, e] stands for int(m) * 2^e, where m is the 53-bit *)
(* significand, most significant bit first, and Zero has the empty         *)
(* significand.  Division and multiplication round to nearest, ties to     *)
(* even, as the interpreter does.                                          *)
(***************************************************************************)
EXTENDS Integers, Sequences, FiniteSets, Bags, TLC

(* ------------------------------ bounds --------------------------------- *)
\* longest question list and longest answer list drawn for calculate_score
MaxLen == 3
\* rows the table quizzes may hold in the handler model
MaxQuizzes == 1
\* submit_quiz requests accepted by the server and not yet run
MaxInflight == 2
\* entries of a generated batch drawn in every combination
MaxBatch == 2
\* rows of the study_cards table
MaxCards == 2
\* rows of the classes table, deleted ones included
MaxClasses == 2
\* review_card calls counted on one card
MaxReviews == 2
\* rows of the activities table, deleted ones included
MaxActivities == 2
\* rows of the messages table
MaxMessages == 12

(* ------------------------- binary64 arithmetic ------------------------- *)
\* binary64 significand width
Precision == 53
\* zero bits appended to a dividend so that the quotient keeps guard bits
Shift == 64

Zero == [m |-> << >>, e |-> 0]

RECURSIVE Bits(_)
Bits(n) == IF n = 0 THEN << >> ELSE Append(Bits(n \div 2), n % 2)

Zeros(width) == [i \in 1..width |-> 0]

StripZeros(sz) ==
    LET ones == {i \in 1..Len(sz) : sz[i] = 1}
    IN  IF ones = {} THEN << >>
        ELSE SubSeq(sz, CHOOSE i \in ones : \A j \in ones : i <= j, Len(sz))

Reverse(rv) == [i \in 1..Len(rv) |-> rv[Len(rv) + 1 - i]]

\* mb[lo..hi] * mk + carry for a bit string mb, least significant bit first,
\* and a small natural mk: the low hi-lo+1 bits of the result in q (least
\* significant first), the rest in c (schoolbook multiplication)
RECURSIVE MulAcc(_, _, _, _, _)
MulAcc(mb, mk, mlo, mhi, carry) ==
    IF mlo > mhi THEN [q |-> << >>, c |-> carry]
    ELSE IF mlo = mhi
         THEN LET v == mb[mlo] * mk + carry IN [q |-> <<v % 2>>, c |-> v \div 2]
    ELSE LET mid  == (mlo + mhi) \div 2
             low  == MulAcc(mb, mk, mlo, mid, carry)
             high == MulAcc(mb, mk, mid + 1, mhi, low.c)
         IN  [q |-> low.q \o high.q, c |-> high.c]

\* ms * mf for a bit string ms and a small natural mf
MulSmall(ms, mf) ==
    LET prod == MulAcc(Reverse(ms), mf, 1, Len(ms), 0)
    IN  StripZeros(Bits(prod.c) \o Reverse(prod.q))

\* long division of db[lo..hi] by a small dk > 0, entered with remainder rem:
\* the quotient bits in q and the remainder left in r
RECURSIVE DivAcc(_, _, _, _, _)
DivAcc(db, dk, dlo, dhi, rem) ==
    IF dlo > dhi THEN [q |-> << >>, r |-> rem]
    ELSE IF dlo = dhi
         THEN LET v == 2 * rem + db[dlo]
              IN  IF v >= dk THEN [q |-> <<1>>, r |-> v - dk] ELSE [q |-> <<0>>, r |-> v]
    ELSE LET mid   == (dlo + dhi) \div 2
             left  == DivAcc(db, dk, dlo, mid, rem)
             right == DivAcc(db, dk, mid + 1, dhi, left.r)
         IN  [q |-> left.q \o right.q, r |-> right.r]

DivSmall(ds, dv) ==
    LET quot == DivAcc(ds, dv, 1, Len(ds), 0) IN [q |-> StripZeros(quot.q), r |-> quot.r]

\* ib + 1 on a bit string of fixed width; the all-ones string wraps to zeros
IncBits(ib) ==
    LET zs == {i \in 1..Len(ib) : ib[i] = 0}
        z  == IF zs = {} THEN 0 ELSE CHOOSE i \in zs : \A j \in zs : j <= i
    IN  [i \in 1..Len(ib) |-> IF i < z THEN ib[i] ELSE IF i = z THEN 1 ELSE 0]

AnyOne(ab, from) == \E i \in from..Len(ab) : ab[i] = 1

\* the binary64 nearest to int(rb) * 2^re (+ a nonzero tail when sticky),
\* ties to even; rb has no leading zero
Round(rb, sticky, re) ==
    IF rb = << >> THEN Zero
    ELSE IF Len(rb) <= Precision
         THEN [m |-> rb \o Zeros(Precision - Len(rb)), e |-> re - (Precision - Len(rb))]
    ELSE LET sig   == SubSeq(rb, 1, Precision)
             guard == rb[Precision + 1]
             rest  == sticky \/ AnyOne(rb, Precision + 2)
             up    == guard = 1 /\ (rest \/ sig[Precision] = 1)
             e2    == re + (Len(rb) - Precision)
             inc   == IncBits(sig)
         IN  IF ~up THEN [m |-> sig, e |-> e2]
             ELSE IF inc[1] = 1 THEN [m |-> inc, e |-> e2]
             ELSE [m |-> <<1>> \o Zeros(Precision - 1), e |-> e2 + 1]

\* float(fi) for a natural fi
FromInt(fi) == Round(Bits(fi), FALSE, 0)

\* num / den on ints (true division, correctly rounded)
FDivInt(num, den) ==
    IF num = 0 THEN Zero
    ELSE LET qr == DivSmall(Bits(num) \o Zeros(Shift), den)
         IN  Round(qr.q, qr.r # 0, 0 - Shift)

\* fm * by for a float fm and an int by
FMulInt(fm, by) ==
    IF fm = Zero \/ by = 0 THEN Zero
    ELSE Round(MulSmall(fm.m, by), FALSE, fm.e)

\* fd / by for a float fd and an int by > 0
FDivByInt(fd, dby) ==
    IF fd = Zero THEN Zero
    ELSE LET qr == DivSmall(fd.m \o Zeros(Shift), dby)
         IN  Round(qr.q, qr.r # 0, fd.e - Shift)

\* -1, 0, 1 as int(ca) <, =, > int(cb); no leading zeros
CmpBits(ca, cb) ==
    LET diff  == {i \in 1..Len(ca) : i <= Len(cb) /\ ca[i] # cb[i]}
        first == CHOOSE i \in diff : \A j \in diff : i <= j
    IN  IF Len(ca) < Len(cb) THEN 0 - 1
        ELSE IF Len(ca) > Len(cb) THEN 1
        ELSE IF diff = {} THEN 0
        ELSE IF ca[first] < cb[first] THEN 0 - 1 ELSE 1

\* -1, 0, 1 as the float cf <, =, > the exact fraction cn / cd (cd > 0)
CmpRat(cf, cn, cd) ==
    IF cf = Zero THEN (IF cn = 0 THEN 0 ELSE 0 - 1)
    ELSE IF cn = 0 THEN 1
    ELSE IF cf.e <= 0 THEN CmpBits(MulSmall(cf.m, cd), Bits(cn) \o Zeros(0 - cf.e))
    ELSE CmpBits(MulSmall(cf.m, cd) \o Zeros(cf.e), Bits(cn))

\* the float next above a positive float
NextUp(nf) ==
    LET inc == IncBits(nf.m)
    IN  IF inc[1] = 1 THEN [m |-> inc, e |-> nf.e]
        ELSE [m |-> <<1>> \o Zeros(Precision - 1), e |-> nf.e + 1]

\* int(tb) for a bit string
RECURSIVE BitsToNat(_)
BitsToNat(tb) ==
    IF tb = << >> THEN 0 ELSE 2 * BitsToNat(SubSeq(tb, 1, Len(tb) - 1)) + tb[Len(tb)]

\* int(tf) for a float 0 <= tf < 2^30: truncation toward zero
Trunc(tf) ==
    IF tf = Zero \/ Precision + tf.e <= 0 THEN 0
    ELSE IF tf.e >= 0 THEN BitsToNat(tf.m \o Zeros(tf.e))
    ELSE BitsToNat(SubSeq(tf.m, 1, Precision + tf.e))

\* values of a field of a parsed entry: the key is absent, the value is a
\* str, or the value is something without str methods (null, a number)
Absent == [absent |-> TRUE]
Str(chars) == [str |-> chars]
NonStr == [nonstr |-> TRUE]

(* ------------------------ QuizService.calculate_score ------------------ *)
\* Python's None: what dict.get gives for a missing key, a NULL column
None == [none |-> TRUE]
\* a JSON integer
JInt(v) == [int |-> v]
\* a list entry that is not a JSON object (it has no .get)
NotDict == [notdict |-> TRUE]
\* outcome of a call that raises
Raise == [kind |-> "raise"]

Returned(v) == [kind |-> "return", value |-> v]

\* a question object with four options, reduced to its correct_answer and
\* the number of its options
QuestionWith(key, options) == [correct_answer |-> key, options |-> options]
Question(key) == QuestionWith(key, JInt(4))

\* ScoreLoop without `if i < len(user_answers)`: indexing past the answers raises
RECURSIVE ScoreLoopUnchecked(_, _, _, _)
ScoreLoopUnchecked(uq, ua, upos, ucorrect) ==
    IF upos > Len(uq) THEN ucorrect
    ELSE IF upos > Len(ua) \/ uq[upos] = NotDict THEN 0 - 1
    ELSE IF JInt(ua[upos]) = uq[upos].correct_answer
         THEN ScoreLoopUnchecked(uq, ua, upos + 1, ucorrect + 1)
         ELSE ScoreLoopUnchecked(uq, ua, upos + 1, ucorrect)

\* ScoreLoop comparing each answer with the keys of all questions, not with
\* the key at its own index
RECURSIVE ScoreLoopAnyKey(_, _, _, _)
ScoreLoopAnyKey(aq, aa, apos, acorrect) ==
    IF apos > Len(aq) THEN acorrect
    ELSE IF apos <= Len(aa)
         THEN IF aq[apos] = NotDict THEN 0 - 1
              ELSE IF \E k \in 1..Len(aq) : aq[k] # NotDict /\ JInt(aa[apos]) = aq[k].correct_answer
                   THEN ScoreLoopAnyKey(aq, aa, apos + 1, acorrect + 1)
                   ELSE ScoreLoopAnyKey(aq, aa, apos + 1, acorrect)
    ELSE ScoreLoopAnyKey(aq, aa, apos + 1, acorrect)

\* the for loop of calculate_score from index pos (1-based) with `correct`
\* matches so far: the final count, or -1 when question.get raises
RECURSIVE ScoreLoop(_, _, _, _)
ScoreLoop(questions, user_answers, pos, correct) ==
    IF pos > Len(questions) THEN correct
    ELSE IF pos <= Len(user_answers)
         THEN IF questions[pos] = NotDict THEN 0 - 1
              ELSE IF JInt(user_answers[pos]) = questions[pos].correct_answer
                   THEN ScoreLoop(questions, user_answers, pos + 1, correct + 1)
                   ELSE ScoreLoop(questions, user_answers, pos + 1, correct)
    ELSE ScoreLoop(questions, user_answers, pos + 1, correct)

\* Percentage with floor division: (correct // total) * 100
PercentageFloorDiv(fhits, ftotal) == FromInt((fhits \div ftotal) * 100)

\* Percentage with the operands of the division exchanged: (total / correct) * 100
PercentageInverted(ihits, itotal) ==
    IF ihits = 0 THEN Zero ELSE FMulInt(FDivInt(itotal, ihits), 100)

\* (correct / total) * 100
Percentage(hits, total) == FMulInt(FDivInt(hits, total), 100)

\* calculate_score without the guards for empty input: dividing by len([]) raises
calculate_scoreUnguarded(gq, ga) ==
    LET correct == ScoreLoop(gq, ga, 1, 0)
    IN  IF correct < 0 \/ Len(gq) = 0 THEN Raise
        ELSE Returned(Percentage(correct, Len(gq)))

calculate_score(questions, user_answers) ==
    IF questions = << >> \/ user_answers = << >> THEN Returned(Zero)
    ELSE LET correct == ScoreLoop(questions, user_answers, 1, 0)
             total   == Len(questions)
         IN  IF correct < 0 THEN Raise
             ELSE Returned(IF total > 0 THEN Percentage(correct, total) ELSE Zero)

(* ------------------------------- state --------------------------------- *)
VARIABLES
    students,     \* table students: row id = index; [email, role, class_id]
    classes,      \* table classes: row id = index; [code, teacher_id, live]
    quizzes,      \* table quizzes: row id = index; [student_id, questions, score, completed]
    inflight,     \* submit_quiz requests accepted and waiting for the event loop
    resp,         \* the response of the request handled last
    scoreWrites,  \* history: per quiz id, how many submit_quiz calls wrote a score
    raced,        \* history: the submit_quiz run last had another submit for its quiz waiting
    fq,           \* calculate_score harness: the questions argument
    fa,           \* calculate_score harness: the user_answers argument
    fret,         \* calculate_score harness: outcome of the last call
    fprev,        \* calculate_score harness: questions and outcome of the call before it
    fpc,          \* calculate_score harness: "init", "returned", "swapped"
    cards,        \* table study_cards: row id = index; [student_id, question, answer,
                  \*   times_reviewed, times_correct]
    gen,          \* history: the generation service call made last, its reply and outcome
    activities,   \* table activities: row id = index; [class_id, teacher_id, live]
    submissions,  \* table activity_submissions, a bag of rows [activity_id, student_id, content]
    conversations, \* table conversations: row id = index; [student_id, title]
    messages,     \* table messages: row id = index; [conversation_id, role, content, created_at]
    chat          \* the chat call waiting for the AI, with the history it sent; NotCalled if none

storeVars == <<students, classes, quizzes>>
genVars == <<cards, gen>>
httpVars == <<inflight, resp, scoreWrites, raced>>
httpVarsButResp == <<inflight, scoreWrites, raced>>
fnVars == <<fq, fa, fret, fprev, fpc>>
activityVars == <<activities, submissions>>
chatVars == <<conversations, messages, chat>>
moreVars == <<activities, submissions, conversations, messages, chat>>
vars == <<students, classes, quizzes, inflight, resp, scoreWrites, raced, fq, fa, fret, fprev, fpc,
          cards, gen, activities, submissions, conversations, messages, chat>>

(* ------------------------------- inputs -------------------------------- *)
\* values of "correct_answer" the generator produces (None: absent or null)
KeyVals == {JInt(0), JInt(2), None}
\* list entries the generator produces
Entries == {Question(k) : k \in KeyVals} \cup {NotDict}
\* answer indices a client sends; 7 is outside the four options
AnswerVals == {0, 2, 7}

SeqsUpTo(S, n) == UNION {[1..k -> S] : k \in 0..n}

\* a ten-question quiz with keys 0,2,0,2,... and an answer sheet with the
\* first seven right
TenQuestions == [i \in 1..10 |-> Question(JInt(2 * ((i + 1) % 2)))]
TenAnswers == [i \in 1..10 |-> IF i <= 7 THEN 2 * ((i + 1) % 2) ELSE 7]

\* question lists and answer sheets of the handler model
SysQuestions == { <<Question(JInt(0)), Question(JInt(0)), Question(JInt(0))>>,
                  <<Question(JInt(2)), NotDict>>,
                  TenQuestions }
SysAnswers == { << >>, TenAnswers }

\* what the completion endpoint does for one call
LLMResponses ==
    {[kind |-> "error"], [kind |-> "notjson"], [kind |-> "nofield"]}
        \cup {[kind |-> "questions", questions |-> qs] : qs \in SysQuestions \cup {<< >>}}

Emails == {"a@x"}
\* student ids a client sends: the first row and one that is never created
StudentIdInputs == {1, 2}
Roles == {"student", "teacher"}
\* class codes random.choices can produce
Codes == {"K1", "K2"}
\* class_code of a registration: absent/empty, or a code
ClassCodeInputs == {""} \cup Codes

NoResponse == [op |-> "none", status |-> 0]
NotCalled == [kind |-> "none"]

\* arguments drawn for calculate_score
QuestionLists == SeqsUpTo(Entries, MaxLen)
AnswerLists == SeqsUpTo(AnswerVals, MaxLen)

(* --------------------------- main.py handlers --------------------------- *)
Ids(table) == 1..Len(table)

\* the lookup of the email finding nothing
StudentByEmailUnchecked(uemail) == {}

\* db.query(models.Student).filter(models.Student.email == email).first()
StudentByEmail(email) == {i \in Ids(students) : students[i].email = email}

\* db.query(models.Class).filter(models.Class.code == code).first()
ClassByCode(code) == {i \in Ids(classes) : classes[i].live /\ classes[i].code = code}

\* POST /api/auth/register
Register(email, role, class_code) ==
    /\ IF StudentByEmail(email) # {}
       THEN /\ resp' = [op |-> "register", status |-> 400]
            /\ UNCHANGED students
       ELSE IF class_code # "" /\ role = "student" /\ ClassByCode(class_code) = {}
       THEN /\ resp' = [op |-> "register", status |-> 404]
            /\ UNCHANGED students
       ELSE LET class_id == IF class_code # "" /\ role = "student"
                            THEN JInt(CHOOSE c \in ClassByCode(class_code) : TRUE)
                            ELSE None
            IN  /\ students' = Append(students,
                       [email |-> email, role |-> role, class_id |-> class_id])
                /\ resp' = [op |-> "register", status |-> 200]
    /\ UNCHANGED <<classes, quizzes, inflight, scoreWrites, raced>>
    /\ UNCHANGED fnVars
    /\ UNCHANGED genVars
    /\ UNCHANGED moreVars

\* generate_quiz keeping only the entries that are objects with four options
ServiceGenerateQuizFiltered(fllm) ==
    IF fllm.kind = "questions"
    THEN SelectSeq(fllm.questions, LAMBDA q : q # NotDict /\ q.options = JInt(4))
    ELSE << >>

\* QuizService.generate_quiz: the questions list, [] on any exception
ServiceGenerateQuiz(llm) ==
    IF llm.kind = "questions" THEN llm.questions ELSE << >>

\* schemas.QuizQuestion accepts the entry (response_model validation)
ValidQuestion(entry) ==
    /\ entry # NotDict
    /\ entry.correct_answer # None
    /\ entry.options # None

\* the detail of an HTTPException, word by word
StudentNotFound == <<"Estudiante", "no", "encontrado">>
NoQuestionsGenerated == <<"No", "se", "pudieron", "generar", "las", "preguntas">>
\* the detail the handler of line 65 gives to an exception nobody caught
InternalError == <<"Error", "interno", "del", "servidor">>

\* if not questions, taken as always false
NoItemsUnchecked(uitems) == FALSE

\* if not questions / if not cards / if not game_data.get(...), of a list
NoItems(items) == items = << >>

\* POST /api/quiz/generate: the handler body
GenerateQuizHandler(student_id, llm) ==
    /\ IF student_id \notin Ids(students)
       THEN /\ resp' = [op |-> "generate_quiz", status |-> 404, detail |-> StudentNotFound]
            /\ UNCHANGED <<quizzes, scoreWrites>>
       ELSE LET questions == ServiceGenerateQuiz(llm)
            IN  IF NoItems(questions)
                THEN /\ resp' = [op |-> "generate_quiz", status |-> 500,
                                 detail |-> NoQuestionsGenerated]
                     /\ UNCHANGED <<quizzes, scoreWrites>>
                ELSE /\ Len(quizzes) < MaxQuizzes
                     /\ quizzes' = Append(quizzes,
                            [student_id |-> student_id, questions |-> questions,
                             score |-> None, completed |-> FALSE])
                     /\ scoreWrites' = Append(scoreWrites, 0)
                     /\ resp' = IF \A i \in Ids(questions) : ValidQuestion(questions[i])
                                THEN [op |-> "generate_quiz", status |-> 200,
                                      id |-> Len(quizzes) + 1, questions |-> questions,
                                      score |-> None, completed |-> FALSE]
                                ELSE [op |-> "generate_quiz", status |-> 500,
                                      detail |-> InternalError]
    /\ UNCHANGED <<students, classes, inflight, raced>>
    /\ UNCHANGED fnVars
    /\ UNCHANGED cards
    /\ UNCHANGED moreVars

\* POST /api/quiz/generate, the call not kept in the history
GenerateQuiz(student_id, llm) ==
    /\ GenerateQuizHandler(student_id, llm)
    /\ UNCHANGED gen

\* a submit_quiz request as the server holds it: path parameter and body
SubmitRequest(quiz_id, answers) == [quiz_id |-> quiz_id, answers |-> answers]

\* a POST /api/quiz/{quiz_id}/submit request reaches the server
SubmitArrive(quiz_id, answers) ==
    /\ BagCardinality(inflight) < MaxInflight
    /\ inflight' = inflight (+) SetToBag({SubmitRequest(quiz_id, answers)})
    /\ UNCHANGED <<students, classes, quizzes, resp, scoreWrites, raced>>
    /\ UNCHANGED fnVars
    /\ UNCHANGED genVars
    /\ UNCHANGED moreVars

\* db.query(models.Quiz).filter(models.Quiz.id == quiz_id).first()
QuizById(quiz_id) == {i \in Ids(quizzes) : i = quiz_id}

\* the check of quiz.completed left out
AlreadyCompletedUnchecked(uquiz) == FALSE

\* if quiz.completed
AlreadyCompleted(quiz) == quiz.completed

\* the row update with quiz.completed = True left out
CompleteQuizScoreOnly(squiz, sscore) == [squiz EXCEPT !.score = sscore]

\* the row update with quiz.score = score left out
CompleteQuizFlagOnly(fquiz, fscore) == [fquiz EXCEPT !.completed = TRUE]

\* quiz.score = score; quiz.completed = True
CompleteQuiz(quiz, score) == [quiz EXCEPT !.score = score, !.completed = TRUE]

\* int(score * len(quiz.questions) / 100)
CorrectAnswers(score, total) == Trunc(FDivByInt(FMulInt(score, total), 100))

\* POST /api/quiz/{quiz_id}/submit: the handler body; it has no await, so it
\* runs from the lookup to the commit without another request in between
SubmitQuiz(request) ==
    /\ BagIn(request, inflight)
    /\ LET quiz_id == request.quiz_id
           answers == request.answers
       IN  IF QuizById(quiz_id) = {}
           THEN /\ resp' = [op |-> "submit_quiz", status |-> 404, quiz_id |-> quiz_id]
                /\ UNCHANGED <<quizzes, scoreWrites>>
           ELSE IF AlreadyCompleted(quizzes[quiz_id])
           THEN /\ resp' = [op |-> "submit_quiz", status |-> 400, quiz_id |-> quiz_id]
                /\ UNCHANGED <<quizzes, scoreWrites>>
           ELSE LET score == calculate_score(quizzes[quiz_id].questions, answers)
                IN  IF score = Raise
                    THEN /\ resp' = [op |-> "submit_quiz", status |-> 500, quiz_id |-> quiz_id]
                         /\ UNCHANGED <<quizzes, scoreWrites>>
                    ELSE /\ quizzes' = [quizzes EXCEPT
                                            ![quiz_id] = CompleteQuiz(@, score.value)]
                         /\ scoreWrites' = [scoreWrites EXCEPT ![quiz_id] = @ + 1]
                         /\ resp' = [op |-> "submit_quiz", status |-> 200,
                                     quiz_id |-> quiz_id, score |-> score.value,
                                     total_questions |-> Len(quizzes[quiz_id].questions),
                                     correct_answers |->
                                         CorrectAnswers(score.value, Len(quizzes[quiz_id].questions))]
    /\ inflight' = inflight (-) SetToBag({request})
    /\ raced' = \E other \in BagToSet(inflight') : other.quiz_id = request.quiz_id
    /\ UNCHANGED <<students, classes>>
    /\ UNCHANGED fnVars
    /\ UNCHANGED genVars
    /\ UNCHANGED moreVars

Init ==
    /\ students = << >>
    /\ classes = << >>
    /\ quizzes = << >>
    /\ inflight = EmptyBag
    /\ resp = NoResponse
    /\ scoreWrites = << >>
    /\ raced = FALSE
    /\ fq = << >>
    /\ fa = << >>
    /\ fret = NotCalled
    /\ fprev = NotCalled
    /\ fpc = "off"
    /\ cards = << >>
    /\ gen = NotCalled
    /\ activities = << >>
    /\ submissions = EmptyBag
    /\ conversations = << >>
    /\ messages = << >>
    /\ chat = NotCalled

Next ==
    \/ \E email \in Emails, role \in Roles, class_code \in ClassCodeInputs :
           Register(email, role, class_code)
    \/ \E student_id \in StudentIdInputs, llm \in LLMResponses : GenerateQuiz(student_id, llm)
    \/ \E quiz_id \in 1..MaxQuizzes, answers \in SysAnswers : SubmitArrive(quiz_id, answers)
    \/ \E request \in BagToSet(inflight) : SubmitQuiz(request)

Spec == Init /\ [][Next]_vars

(* ------------------- calculate_score called on its own ------------------ *)
InitScore ==
    /\ students = << >>
    /\ classes = << >>
    /\ quizzes = << >>
    /\ inflight = EmptyBag
    /\ resp = NoResponse
    /\ scoreWrites = << >>
    /\ raced = FALSE
    /\ fq \in QuestionLists
    /\ fa \in AnswerLists
    /\ fret = NotCalled
    /\ fprev = NotCalled
    /\ fpc = "init"
    /\ cards = << >>
    /\ gen = NotCalled
    /\ activities = << >>
    /\ submissions = EmptyBag
    /\ conversations = << >>
    /\ messages = << >>
    /\ chat = NotCalled

\* QuizService.calculate_score(fq, fa)
CallScore ==
    /\ fpc = "init"
    /\ fret' = calculate_score(fq, fa)
    /\ fpc' = "returned"
    /\ UNCHANGED <<fq, fa, fprev>>
    /\ UNCHANGED <<storeVars, httpVars>>
    /\ UNCHANGED genVars
    /\ UNCHANGED moreVars

\* the questions with the correct_answer values of questions i and j exchanged
SwapKeys(questions, i, j) ==
    [questions EXCEPT ![i] = questions[j], ![j] = questions[i]]

\* a second call after exchanging the keys of two questions, answers kept
SwapAndCallScore(i, j) ==
    /\ fpc = "returned"
    /\ i < j /\ j <= Len(fq)
    /\ fq[i] # NotDict /\ fq[j] # NotDict
    /\ fq' = SwapKeys(fq, i, j)
    /\ fprev' = [questions |-> fq, ret |-> fret]
    /\ fret' = calculate_score(fq', fa)
    /\ fpc' = "swapped"
    /\ UNCHANGED fa
    /\ UNCHANGED <<storeVars, httpVars>>
    /\ UNCHANGED genVars
    /\ UNCHANGED moreVars

NextScore ==
    \/ CallScore
    \/ \E i \in 1..MaxLen, j \in 1..MaxLen : SwapAndCallScore(i, j)

SpecScore == InitScore /\ [][NextScore]_vars

(* --------------------------- classes handlers --------------------------- *)
\* a deleted row keeps its place in the sequence, so that ids stay row indices
LiveClasses == {i \in Ids(classes) : classes[i].live}

\* the engine is SQLite (the PRAGMA of _ensure_schema_updates) and id an
\* INTEGER PRIMARY KEY: the next row gets the id after the highest one in
\* use, so the deleted rows after the last live one are gone
DropDeletedTail(rows) ==
    LET live == {i \in 1..Len(rows) : rows[i].live}
    IN  IF live = {} THEN << >>
        ELSE SubSeq(rows, 1, CHOOSE i \in live : \A j \in live : i >= j)

\* POST /api/classes: code is one random.choices draws that no class has
CreateClass(teacher_id, code) ==
    /\ IF teacher_id \notin Ids(students) \/ students[teacher_id].role # "teacher"
       THEN /\ resp' = [op |-> "create_class", status |-> 403]
            /\ UNCHANGED classes
       ELSE /\ ClassByCode(code) = {}
            /\ Len(classes) < MaxClasses
            /\ classes' = Append(classes,
                   [code |-> code, teacher_id |-> teacher_id, live |-> TRUE])
            /\ resp' = [op |-> "create_class", status |-> 200, id |-> Len(classes) + 1]
    /\ UNCHANGED <<students, quizzes, inflight, scoreWrites, raced>>
    /\ UNCHANGED fnVars
    /\ UNCHANGED genVars
    /\ UNCHANGED moreVars

\* the comparison of the owner with teacher_id left out
NotOwnerUnchecked(uclass, uteacher) == FALSE

\* if class_obj.teacher_id != teacher_id
NotOwner(class_obj, teacher_id) == class_obj.teacher_id # teacher_id

\* the update of the students left out
DetachStudentsSkipped(srows, sclass_id) == srows

\* db.query(models.Student).filter(models.Student.class_id == class_id)
\*   .update({"class_id": None})
DetachStudents(rows, class_id) ==
    [i \in DOMAIN rows |->
        IF rows[i].class_id = JInt(class_id)
        THEN [rows[i] EXCEPT !.class_id = None]
        ELSE rows[i]]

\* DELETE /api/classes/{class_id}
DeleteClass(class_id, teacher_id) ==
    /\ IF class_id \notin LiveClasses
       THEN /\ resp' = [op |-> "delete_class", status |-> 404]
            /\ UNCHANGED <<students, classes>>
       ELSE IF NotOwner(classes[class_id], teacher_id)
       THEN /\ resp' = [op |-> "delete_class", status |-> 403]
            /\ UNCHANGED <<students, classes>>
       ELSE /\ students' = DetachStudents(students, class_id)
            /\ classes' = DropDeletedTail([classes EXCEPT ![class_id].live = FALSE])
            /\ resp' = [op |-> "delete_class", status |-> 200]
    /\ UNCHANGED <<quizzes, inflight, scoreWrites, raced>>
    /\ UNCHANGED fnVars
    /\ UNCHANGED genVars
    /\ UNCHANGED moreVars

ClassEmails == {"a@x", "b@x"}
\* ids a client sends for a class and for a teacher
ClassIdInputs == 1..MaxClasses
TeacherIdInputs == {1, 2}
OneQuiz == [kind |-> "questions", questions |-> <<Question(JInt(0)), Question(JInt(2))>>]

NextClasses ==
    \/ \E email \in ClassEmails, role \in Roles, class_code \in ClassCodeInputs :
           Register(email, role, class_code)
    \/ \E teacher_id \in TeacherIdInputs, code \in Codes : CreateClass(teacher_id, code)
    \/ \E class_id \in ClassIdInputs, teacher_id \in TeacherIdInputs :
           DeleteClass(class_id, teacher_id)
    \/ GenerateQuiz(1, OneQuiz)
    \/ SubmitArrive(1, <<0, 0>>)
    \/ \E request \in BagToSet(inflight) : SubmitQuiz(request)

SpecClasses == Init /\ [][NextClasses]_vars

(* -------------------------- activities handlers ------------------------- *)
LiveActivities == {i \in Ids(activities) : activities[i].live}

\* POST /api/activities; due_date is "" or a text datetime.fromisoformat
\* accepts or refuses
CreateActivity(class_id, teacher_id, due_date) ==
    /\ IF teacher_id \notin Ids(students) \/ students[teacher_id].role # "teacher"
       THEN /\ resp' = [op |-> "create_activity", status |-> 403]
            /\ UNCHANGED activities
       ELSE IF class_id \notin LiveClasses \/ classes[class_id].teacher_id # teacher_id
       THEN /\ resp' = [op |-> "create_activity", status |-> 404]
            /\ UNCHANGED activities
       ELSE IF due_date = "no date"
       THEN /\ resp' = [op |-> "create_activity", status |-> 500, detail |-> InternalError]
            /\ UNCHANGED activities
       ELSE /\ Len(activities) < MaxActivities
            /\ activities' = Append(activities,
                   [class_id |-> class_id, teacher_id |-> teacher_id, live |-> TRUE])
            /\ resp' = [op |-> "create_activity", status |-> 200,
                        activity_id |-> Len(activities) + 1]
    /\ UNCHANGED <<storeVars, httpVarsButResp, fnVars, genVars, submissions, chatVars>>

\* the lookup of an earlier submission finding nothing
ExistingSubmissionUnchecked(uactivity_id, ustudent_id) == {}

\* db.query(models.ActivitySubmission).filter(activity_id == ..., student_id == ...)
ExistingSubmission(activity_id, student_id) ==
    {row \in BagToSet(submissions) :
        /\ row.activity_id = activity_id
        /\ row.student_id = student_id}

\* POST /api/activities/submit
SubmitActivity(activity_id, student_id, content) ==
    /\ IF activity_id \notin LiveActivities
       THEN /\ resp' = [op |-> "submit_activity", status |-> 404]
            /\ UNCHANGED submissions
       ELSE /\ IF ExistingSubmission(activity_id, student_id) # {}
               THEN LET first == CHOOSE row \in ExistingSubmission(activity_id, student_id) :
                                     TRUE
                    IN  submissions' = (submissions (-) SetToBag({first}))
                                           (+) SetToBag({[first EXCEPT !.content = content]})
               ELSE submissions' = submissions (+) SetToBag(
                        {[activity_id |-> activity_id, student_id |-> student_id,
                          content |-> content]})
            /\ resp' = [op |-> "submit_activity", status |-> 200, success |-> TRUE]
    /\ UNCHANGED <<storeVars, httpVarsButResp, fnVars, genVars, activities, chatVars>>

\* the rows left when the submissions of an activity go with it (cascade)
WithoutActivity(rows, activity_id) ==
    [row \in {r \in BagToSet(rows) : r.activity_id # activity_id} |-> rows[row]]

\* DELETE /api/activities/{activity_id}
DeleteActivity(activity_id, teacher_id) ==
    /\ IF activity_id \notin LiveActivities \/ activities[activity_id].teacher_id # teacher_id
       THEN /\ resp' = [op |-> "delete_activity", status |-> 404]
            /\ UNCHANGED <<activities, submissions>>
       ELSE /\ activities' = DropDeletedTail([activities EXCEPT ![activity_id].live = FALSE])
            /\ submissions' = WithoutActivity(submissions, activity_id)
            /\ resp' = [op |-> "delete_activity", status |-> 200, success |-> TRUE]
    /\ UNCHANGED <<storeVars, httpVarsButResp, fnVars, genVars, chatVars>>

\* activity ids a client sends: the rows there can be and one more
ActivityIdInputs == 1..(MaxActivities + 1)
DueDates == {"", "no date"}
Contents == {"c1", "c2"}

NextActivities ==
    \/ \E role \in Roles : Register("a@x", role, "")
    \/ CreateClass(1, "K1")
    \/ \E class_id \in {1}, teacher_id \in TeacherIdInputs, due_date \in DueDates :
           CreateActivity(class_id, teacher_id, due_date)
    \/ \E activity_id \in ActivityIdInputs, student_id \in StudentIdInputs,
          content \in Contents : SubmitActivity(activity_id, student_id, content)
    \/ \E activity_id \in ActivityIdInputs, teacher_id \in TeacherIdInputs :
           DeleteActivity(activity_id, teacher_id)

SpecActivities == Init /\ [][NextActivities]_vars

(* ------------------------------ chat handler ---------------------------- *)
\* previous_messages[-10:] keeps this many messages
HistoryWindow == 10

\* the text AIService.chat returns when the completion raised
AIErrorText == "Lo siento, hubo un error al procesar tu consulta"
\* what AIService.chat returns: the completion's text or the error text
AIResponses == {"respuesta", AIErrorText}

\* filter(Message.conversation_id == conversation.id)
MessagesOf(table, conversation_id) ==
    {i \in Ids(table) : table[i].conversation_id = conversation_id}

\* order_by(Message.created_at)
RECURSIVE OrderByCreatedAt(_, _)
OrderByCreatedAt(table, found) ==
    IF found = {}
    THEN << >>
    ELSE LET first == CHOOSE i \in found :
                          \A j \in found :
                              \/ table[i].created_at < table[j].created_at
                              \/ (table[i].created_at = table[j].created_at /\ i <= j)
         IN  <<table[first]>> \o OrderByCreatedAt(table, found \ {first})

\* the whole list instead of its last ten
LastMessagesAll(uprevious_messages) == uprevious_messages

\* previous_messages[-10:]
LastMessages(previous_messages) ==
    IF Len(previous_messages) <= HistoryWindow
    THEN previous_messages
    ELSE SubSeq(previous_messages, Len(previous_messages) - HistoryWindow + 1,
                Len(previous_messages))

\* {"role": msg.role, "content": msg.content}
ForAI(msg) == [role |-> msg.role, content |-> msg.content]

\* datetime.utcnow at the insert of a message: later for every later insert
UtcNow == Len(messages) + 1

\* POST /api/chat up to the call of AIService.chat
ChatStart(student_id, conversation_id, message) ==
    /\ chat = NotCalled
    /\ IF student_id \notin Ids(students)
       THEN /\ resp' = [op |-> "chat", status |-> 404, detail |-> StudentNotFound]
            /\ UNCHANGED <<conversations, messages, chat>>
       ELSE IF conversation_id # 0 /\ conversation_id \notin Ids(conversations)
       THEN /\ resp' = [op |-> "chat", status |-> 404,
                        detail |-> <<"Conversacion", "no", "encontrada">>]
            /\ UNCHANGED <<conversations, messages, chat>>
       ELSE /\ Len(messages) + 2 <= MaxMessages
            /\ conversations' =
                   IF conversation_id # 0
                   THEN conversations
                   ELSE Append(conversations, [student_id |-> student_id, title |-> message])
            /\ LET id == IF conversation_id # 0 THEN conversation_id ELSE Len(conversations')
                   user_message == [conversation_id |-> id, role |-> "user",
                                    content |-> message, created_at |-> UtcNow]
               IN  /\ messages' = Append(messages, user_message)
                   /\ chat' = [kind |-> "calling", student_id |-> student_id,
                               conversation_id |-> id, user_message |-> Len(messages'),
                               messages_for_ai |->
                                   LET previous_messages ==
                                           OrderByCreatedAt(messages',
                                                            MessagesOf(messages', id))
                                       window == LastMessages(previous_messages)
                                   IN  [k \in 1..Len(window) |-> ForAI(window[k])]]
            /\ UNCHANGED resp
    /\ UNCHANGED <<storeVars, httpVarsButResp, fnVars, genVars, activityVars>>

\* POST /api/chat from the return of AIService.chat on
ChatFinish(ai_response) ==
    /\ chat # NotCalled
    /\ LET assistant_message == [conversation_id |-> chat.conversation_id,
                                 role |-> "assistant", content |-> ai_response,
                                 created_at |-> UtcNow]
       IN  /\ messages' = Append(messages, assistant_message)
           /\ resp' = [op |-> "chat", status |-> 200,
                       conversation_id |-> chat.conversation_id,
                       message |-> messages[chat.user_message],
                       assistant_response |-> assistant_message]
    /\ chat' = NotCalled
    /\ UNCHANGED conversations
    /\ UNCHANGED <<storeVars, httpVarsButResp, fnVars, genVars, activityVars>>

\* conversation ids a client sends: none, and two that may exist
ConversationIdInputs == {0, 1, 2}
ChatMessages == {"hola"}

\* AIService.chat never yields to the event loop, so no other handler runs
\* while a chat call waits for its answer
NextChat ==
    \/ chat = NotCalled /\ Register("a@x", "student", "")
    \/ \E student_id \in StudentIdInputs, conversation_id \in ConversationIdInputs,
          message \in ChatMessages : ChatStart(student_id, conversation_id, message)
    \/ \E ai_response \in AIResponses : ChatFinish(ai_response)

SpecChat == Init /\ [][NextChat]_vars

(* ------------------- GamesService.generate_pasapalabra ------------------ *)
\* A str is a sequence of characters; "aacute" and "Aacute" stand for the
\* accented vowels U+00E1 and U+00C1, "sp" for a blank.
LowerCase == <<"a", "b", "c", "d", "e", "f", "g", "h", "i", "j", "k", "l", "m", "n",
               "o", "p", "q", "r", "s", "t", "u", "v", "w", "x", "y", "z", "aacute">>
UpperCase == <<"A", "B", "C", "D", "E", "F", "G", "H", "I", "J", "K", "L", "M", "N",
               "O", "P", "Q", "R", "S", "T", "U", "V", "W", "X", "Y", "Z", "Aacute">>

\* str.upper() of one character: an accented vowel keeps its accent
UpperChar(c) ==
    IF \E i \in 1..Len(LowerCase) : LowerCase[i] = c
    THEN UpperCase[CHOOSE i \in 1..Len(LowerCase) : LowerCase[i] = c]
    ELSE c

\* str.upper()
Upper(str) == [i \in 1..Len(str) |-> UpperChar(str[i])]

\* str.strip(): leading and trailing blanks removed
Strip(str) ==
    LET solid == {i \in 1..Len(str) : str[i] # "sp"}
    IN  IF solid = {} THEN << >>
        ELSE SubSeq(str, CHOOSE i \in solid : \A j \in solid : i <= j,
                         CHOOSE i \in solid : \A j \in solid : i >= j)

\* one entry of "letters"
LetterItem(letter, answer, type) == [letter |-> letter, answer |-> answer, type |-> type]

\* item.get(key, ""): the value, "" when the key is absent
GetOrEmpty(field) == IF field = Absent THEN Str(<< >>) ELSE field

\* what a generation service hands back: a dict with its collection, a dict
\* without the key, or the parsed JSON itself when that is no dict
GameData(items) == [dict |-> TRUE, has |-> TRUE, items |-> items]
GameDataWithout == [dict |-> TRUE, has |-> FALSE]
RawArray == [dict |-> FALSE, value |-> "array"]

\* json.loads(content) of a reply that is an object with "letters": the list
\* and, when the object has them, its other keys ("title", ...)
Payload(reply) ==
    IF "others" \in DOMAIN reply
    THEN [dict |-> TRUE, has |-> TRUE, items |-> reply.items, others |-> reply.others]
    ELSE GameData(reply.items)

\* game_data["letters"] = validated_letters
WithLetters(game_data, validated_letters) == [game_data EXCEPT !.items = validated_letters]

\* lines 80-81 raise for this entry: it has no get method, or letter or
\* answer has no str methods
EntryRaises(item) ==
    \/ item = NotDict
    \/ GetOrEmpty(item.letter) = NonStr
    \/ GetOrEmpty(item.answer) = NonStr

\* the comparison of the initial with the letter left out
StartsWithLetterUnchecked(uitem) == Strip(GetOrEmpty(uitem.answer).str) # << >>

\* if answer and answer[0].upper() == letter
StartsWithLetter(item) ==
    LET letter == Upper(GetOrEmpty(item.letter).str)
        answer == Strip(GetOrEmpty(item.answer).str)
    IN  answer # << >> /\ <<UpperChar(answer[1])>> = letter

\* the loop of lines 79-88 over the parsed list
ValidateLetters(items) ==
    IF \E i \in 1..Len(items) : EntryRaises(items[i])
    THEN Raise
    ELSE Returned(SelectSeq(items, StartsWithLetter))

\* the body of the try block, lines 65-93
PasapalabraBody(reply) ==
    CASE reply.kind \in {"error", "notjson", "number"} -> Raise
      [] reply.kind = "array" -> Returned(RawArray)
      [] reply.kind = "nofield" -> Returned(GameDataWithout)
      [] reply.kind = "object" ->
            LET validated == ValidateLetters(reply.items)
            IN  IF validated = Raise THEN Raise
                ELSE Returned(WithLetters(Payload(reply), validated.value))

\* the except clause left out
generate_pasapalabraUncaught(ureply) == PasapalabraBody(ureply)

\* GamesService.generate_pasapalabra: the try block and its except clause
generate_pasapalabra(reply) ==
    IF PasapalabraBody(reply) = Raise
    THEN Returned(GameData(<< >>))
    ELSE PasapalabraBody(reply)

(* ---------------- generate_pasapalabra called on its own ---------------- *)
Chars == {"A", "a", "Aacute", "Z", "sp"}
AnswerStrs == SeqsUpTo(Chars, 2)
LetterFields == {Absent, NonStr, Str(<<"A">>), Str(<<"a">>), Str(<<"B">>)}
AnswerFields == {Absent, NonStr} \cup {Str(chars) : chars \in AnswerStrs}
TypeFields == {"starts", "contains"}
LetterItems ==
    {LetterItem(l, a, t) : l \in LetterFields, a \in AnswerFields, t \in TypeFields}
        \cup {NotDict}

Atomo == <<"Aacute", "t", "o", "m", "o">>
Agua == <<"A", "g", "u", "a">>
Zorro == <<"Z", "o", "r", "r", "o">>

\* entries combined into batches
BatchItems ==
    { LetterItem(Str(<<"A">>), Str(Agua), "starts"),
      LetterItem(Str(<<"A">>), Str(Atomo), "starts"),
      LetterItem(Str(<<"B">>), Str(Zorro), "starts"),
      LetterItem(Str(<<"a">>), Str(<<"sp", "a">>), "starts"),
      LetterItem(Str(<<"A">>), Absent, "starts"),
      LetterItem(Absent, Str(Agua), "contains"),
      LetterItem(NonStr, Str(Agua), "starts"),
      NotDict }

\* one more valid entry than the 26 the prompt asks for
TwentySevenLetters == [i \in 1..27 |-> LetterItem(Str(<<"A">>), Str(Agua), "starts")]

LetterBatches ==
    SeqsUpTo(BatchItems, MaxBatch)
        \cup {<<item>> : item \in LetterItems}
        \cup {TwentySevenLetters}

\* batches that come in an object with a "title" next to "letters"
TitledBatches == SeqsUpTo(BatchItems, MaxBatch)

PasapalabraReplies ==
    {[kind |-> "error"], [kind |-> "notjson"], [kind |-> "number"],
     [kind |-> "array"], [kind |-> "nofield"]}
        \cup {[kind |-> "object", items |-> batch] : batch \in LetterBatches}
        \cup {[kind |-> "object", items |-> batch, others |-> "title"] :
                  batch \in TitledBatches}

InitPasapalabra ==
    /\ students = << >>
    /\ classes = << >>
    /\ quizzes = << >>
    /\ inflight = EmptyBag
    /\ resp = NoResponse
    /\ scoreWrites = << >>
    /\ raced = FALSE
    /\ fq = << >>
    /\ fa = << >>
    /\ fret = NotCalled
    /\ fprev = NotCalled
    /\ fpc = "off"
    /\ cards = << >>
    /\ gen \in {[op |-> "generate_pasapalabra", reply |-> reply, ret |-> NotCalled] :
                   reply \in PasapalabraReplies}
    /\ activities = << >>
    /\ submissions = EmptyBag
    /\ conversations = << >>
    /\ messages = << >>
    /\ chat = NotCalled

\* GamesService.generate_pasapalabra on the reply drawn
CallPasapalabra ==
    /\ gen.ret = NotCalled
    /\ gen' = [gen EXCEPT !.ret = generate_pasapalabra(gen.reply)]
    /\ UNCHANGED <<storeVars, httpVars, fnVars, cards>>
    /\ UNCHANGED moreVars

NextPasapalabra == CallPasapalabra

SpecPasapalabra == InitPasapalabra /\ [][NextPasapalabra]_vars

(* ------------------ the other generation services and handlers --------- *)
RawNumber == [dict |-> FALSE, value |-> "number"]

\* QuizService.generate_study_cards: cards_data.get("cards", []), [] on any
\* exception (a reply that parses to no object has no get)
ServiceGenerateCards(reply) ==
    IF reply.kind = "object" THEN reply.items ELSE << >>

\* the try block of generate_atrapa_millon, generate_escape_room and
\* generate_ahorcado: the parsed JSON is handed back as it is
PassThroughBody(reply) ==
    CASE reply.kind \in {"error", "notjson"} -> Raise
      [] reply.kind = "number" -> Returned(RawNumber)
      [] reply.kind = "array" -> Returned(RawArray)
      [] reply.kind = "nofield" -> Returned(GameDataWithout)
      [] reply.kind = "object" -> Returned(GameData(reply.items))

\* GamesService.generate_atrapa_millon
generate_atrapa_millon(reply) ==
    IF PassThroughBody(reply) = Raise THEN Returned(GameData(<< >>)) ELSE PassThroughBody(reply)

\* GamesService.generate_escape_room
generate_escape_room(reply) ==
    IF PassThroughBody(reply) = Raise THEN Returned(GameData(<< >>)) ELSE PassThroughBody(reply)

\* GamesService.generate_ahorcado
generate_ahorcado(reply) ==
    IF PassThroughBody(reply) = Raise THEN Returned(GameData(<< >>)) ELSE PassThroughBody(reply)

NoPasapalabra == <<"No", "se", "pudo", "generar", "el", "Pasapalabra">>
NoAtrapaMillon == <<"No", "se", "pudo", "generar", "Atrapa", "un", "Millon">>
NoEscapeRoom == <<"No", "se", "pudo", "generar", "el", "Escape", "Room">>
NoAhorcado == <<"No", "se", "pudo", "generar", "el", "Ahorcado">>
NoCardsGenerated == <<"No", "se", "pudieron", "generar", "las", "tarjetas">>

\* the four /api/games/* handlers after the service call: game_data.get(...)
\* raises when game_data is no dict, and the handler of line 65 answers
GameResponse(op, tag, student_id, game_data, detail) ==
    IF student_id \notin Ids(students)
    THEN [op |-> op, status |-> 404, detail |-> StudentNotFound]
    ELSE IF ~game_data.dict
    THEN [op |-> op, status |-> 500, detail |-> InternalError]
    ELSE IF ~game_data.has \/ NoItems(game_data.items)
    THEN [op |-> op, status |-> 500, detail |-> detail]
    ELSE [op |-> op, status |-> 200, success |-> TRUE, game |-> tag, data |-> game_data]

\* the history entry of a service call; the service is not called for an
\* unknown student
Called(op, student_id, requested, reply, ret) ==
    IF student_id \in Ids(students)
    THEN [op |-> op, requested |-> requested, reply |-> reply, ret |-> ret]
    ELSE NotCalled

\* POST /api/games/pasapalabra
GeneratePasapalabra(student_id, reply) ==
    /\ resp' = GameResponse("generate_pasapalabra", "pasapalabra", student_id,
                            generate_pasapalabra(reply).value, NoPasapalabra)
    /\ gen' = Called("generate_pasapalabra", student_id, 26, reply, generate_pasapalabra(reply))
    /\ UNCHANGED <<storeVars, inflight, scoreWrites, raced, fnVars, cards>>
    /\ UNCHANGED moreVars

\* demo_data["letters"] of /api/games/pasapalabra-demo: letter, answer and
\* type of its 27 entries, one string per character, accented ones by name
DemoLetters ==
    <<
      LetterItem(Str(<<"A">>), Str(<<"O", "r", "o">>), "starts"),
      LetterItem(Str(<<"B">>), Str(<<"B", "i", "o", "l", "o", "g", "iacute", "a">>), "starts"),
      LetterItem(Str(<<"C">>), Str(<<"M", "a", "d", "r", "i", "d">>), "contains"),
      LetterItem(Str(<<"D">>), Str(<<"D", "i", "v", "i", "s", "i", "oacute", "n">>), "starts"),
      LetterItem(Str(<<"E">>), Str(<<"E", "u", "r", "o", "p", "a">>), "starts"),
      LetterItem(Str(<<"F">>), Str(<<"F", "o", "t", "o", "s", "iacute", "n", "t", "e", "s", "i", "s">>), "starts"),
      LetterItem(Str(<<"G">>), Str(<<"G", "r", "a", "v", "e", "d", "a", "d">>), "starts"),
      LetterItem(Str(<<"H">>), Str(<<"H", "i", "d", "r", "oacute", "g", "e", "n", "o">>), "starts"),
      LetterItem(Str(<<"I">>), Str(<<"A", "s", "i", "a">>), "contains"),
      LetterItem(Str(<<"J">>), Str(<<"J", "u", "d", "o">>), "starts"),
      LetterItem(Str(<<"K">>), Str(<<"K", "e", "l", "v", "i", "n">>), "starts"),
      LetterItem(Str(<<"L">>), Str(<<"P", "o", "r", "t", "u", "g", "u", "eacute", "s">>), "contains"),
      LetterItem(Str(<<"M">>), Str(<<"C", "o", "r", "a", "z", "oacute", "n">>), "contains"),
      LetterItem(Str(<<"N">>), Str(<<"N", "i", "t", "r", "oacute", "g", "e", "n", "o">>), "starts"),
      LetterItem(Str(<<"Ntilde">>), Str(<<"J", "u", "l", "i", "o">>), "contains"),
      LetterItem(Str(<<"O">>), Str(<<"O", "x", "iacute", "g", "e", "n", "o">>), "starts"),
      LetterItem(Str(<<"P">>), Str(<<"I", "t", "a", "l", "i", "a">>), "contains"),
      LetterItem(Str(<<"Q">>), Str(<<"Q", "u", "iacute", "m", "i", "c", "a">>), "starts"),
      LetterItem(Str(<<"R">>), Str(<<"R", "i", "ntilde", "oacute", "n">>), "starts"),
      LetterItem(Str(<<"S">>), Str(<<"S", "o", "l">>), "starts"),
      LetterItem(Str(<<"T">>), Str(<<"S", "a", "t", "u", "r", "n", "o">>), "contains"),
      LetterItem(Str(<<"U">>), Str(<<"U", "r", "a", "n", "o">>), "starts"),
      LetterItem(Str(<<"V">>), Str(<<"M", "e", "r", "c", "u", "r", "i", "o">>), "contains"),
      LetterItem(Str(<<"W">>), Str(<<"W", "a", "t", "t">>), "starts"),
      LetterItem(Str(<<"X">>), Str(<<"X", "i", "l", "oacute", "f", "o", "n", "o">>), "starts"),
      LetterItem(Str(<<"Y">>), Str(<<"P", "l", "a", "t", "a">>), "contains"),
      LetterItem(Str(<<"Z">>), Str(<<"Z", "o", "o", "l", "o", "g", "iacute", "a">>), "starts")
    >>

\* POST /api/games/pasapalabra-demo: no service is called
PasapalabraDemo(student_id) ==
    /\ resp' = IF student_id \notin Ids(students)
               THEN [op |-> "pasapalabra_demo", status |-> 404, detail |-> StudentNotFound]
               ELSE [op |-> "pasapalabra_demo", status |-> 200, success |-> TRUE,
                     game |-> "pasapalabra", data |-> GameData(DemoLetters)]
    /\ gen' = NotCalled
    /\ UNCHANGED <<storeVars, inflight, scoreWrites, raced, fnVars, cards>>
    /\ UNCHANGED moreVars

\* POST /api/games/atrapa-millon
GenerateAtrapaMillon(student_id, reply) ==
    /\ resp' = GameResponse("generate_atrapa_millon", "atrapa-millon", student_id,
                            generate_atrapa_millon(reply).value, NoAtrapaMillon)
    /\ gen' = Called("generate_atrapa_millon", student_id, 10, reply, generate_atrapa_millon(reply))
    /\ UNCHANGED <<storeVars, inflight, scoreWrites, raced, fnVars, cards>>
    /\ UNCHANGED moreVars

\* POST /api/games/escape-room
GenerateEscapeRoom(student_id, reply) ==
    /\ resp' = GameResponse("generate_escape_room", "escape-room", student_id,
                            generate_escape_room(reply).value, NoEscapeRoom)
    /\ gen' = Called("generate_escape_room", student_id, 5, reply, generate_escape_room(reply))
    /\ UNCHANGED <<storeVars, inflight, scoreWrites, raced, fnVars, cards>>
    /\ UNCHANGED moreVars

\* POST /api/games/ahorcado
GenerateAhorcado(student_id, reply) ==
    /\ resp' = GameResponse("generate_ahorcado", "ahorcado", student_id,
                            generate_ahorcado(reply).value, NoAhorcado)
    /\ gen' = Called("generate_ahorcado", student_id, 10, reply, generate_ahorcado(reply))
    /\ UNCHANGED <<storeVars, inflight, scoreWrites, raced, fnVars, cards>>
    /\ UNCHANGED moreVars

\* a study card as generated
Card(question, answer) == [question |-> question, answer |-> answer]

\* card["question"] or card["answer"] raises (no such key, no object), or the
\* NOT NULL column refuses the value at commit
CardRaises(card) ==
    \/ card = NotDict
    \/ card.question \in {Absent, NonStr}
    \/ card.answer \in {Absent, NonStr}

\* POST /api/cards/generate
GenerateStudyCards(student_id, num_cards, reply) ==
    /\ LET generated == ServiceGenerateCards(reply)
       IN  IF student_id \notin Ids(students)
           THEN /\ resp' = [op |-> "generate_study_cards", status |-> 404,
                            detail |-> StudentNotFound]
                /\ UNCHANGED cards
           ELSE IF NoItems(generated)
           THEN /\ resp' = [op |-> "generate_study_cards", status |-> 500,
                            detail |-> NoCardsGenerated]
                /\ UNCHANGED cards
           ELSE IF \E i \in 1..Len(generated) : CardRaises(generated[i])
           THEN /\ resp' = [op |-> "generate_study_cards", status |-> 500,
                            detail |-> InternalError]
                /\ UNCHANGED cards
           ELSE LET rows == [i \in 1..Len(generated) |->
                                [student_id |-> student_id,
                                 question |-> generated[i].question,
                                 answer |-> generated[i].answer,
                                 times_reviewed |-> 0, times_correct |-> 0]]
                IN  /\ Len(cards) + Len(rows) <= MaxCards
                    /\ cards' = cards \o rows
                    /\ resp' = [op |-> "generate_study_cards", status |-> 200,
                                success |-> TRUE, cards_created |-> Len(rows),
                                cards |-> rows]
    /\ gen' = Called("generate_study_cards", student_id, num_cards, reply,
                     Returned(ServiceGenerateCards(reply)))
    /\ UNCHANGED <<storeVars, inflight, scoreWrites, raced, fnVars>>
    /\ UNCHANGED moreVars

\* the update of a reviewed card with the increment of times_reviewed left out
ReviewedCorrectOnly(ocard, ocorrect) ==
    [ocard EXCEPT !.times_correct = IF ocorrect THEN @ + 1 ELSE @]

\* card.times_reviewed += 1; if correct: card.times_correct += 1
Reviewed(card, correct) ==
    [card EXCEPT !.times_reviewed = @ + 1,
                 !.times_correct = IF correct THEN @ + 1 ELSE @]

\* (card.times_correct / card.times_reviewed * 100) if card.times_reviewed > 0 else 0
Accuracy(card) ==
    IF card.times_reviewed > 0
    THEN Percentage(card.times_correct, card.times_reviewed)
    ELSE Zero

\* POST /api/cards/{card_id}/review
ReviewCard(card_id, correct) ==
    /\ IF card_id \notin Ids(cards)
       THEN /\ resp' = [op |-> "review_card", status |-> 404]
            /\ UNCHANGED cards
       ELSE /\ cards[card_id].times_reviewed < MaxReviews
            /\ cards' = [cards EXCEPT ![card_id] = Reviewed(@, correct)]
            /\ resp' = [op |-> "review_card", status |-> 200, success |-> TRUE,
                        card_id |-> card_id,
                        times_reviewed |-> cards'[card_id].times_reviewed,
                        times_correct |-> cards'[card_id].times_correct,
                        accuracy |-> Accuracy(cards'[card_id])]
    /\ UNCHANGED <<storeVars, inflight, scoreWrites, raced, fnVars, gen>>
    /\ UNCHANGED moreVars

\* card ids a client sends: the rows there can be and one more
CardIdInputs == 1..(MaxCards + 1)
\* POST /api/quiz/generate, the call kept in the history
GenerateQuizCall(student_id, num_questions, llm) ==
    /\ GenerateQuizHandler(student_id, llm)
    /\ gen' = Called("generate_quiz", student_id, num_questions, llm,
                     Returned(ServiceGenerateQuiz(llm)))

(* ------------------------ the generation endpoints ---------------------- *)
\* replies for which no collection can be read
FailedReplies ==
    {[kind |-> "error"], [kind |-> "notjson"], [kind |-> "number"],
     [kind |-> "array"], [kind |-> "nofield"]}

\* num_questions and num_cards a client asks for
NumQuestionsInputs == {1, 5}
NumCardsInputs == {1, 2}

FiveQuestions == [i \in 1..5 |-> Question(JInt(i % 4))]
\* a question with two options whose key is outside them
TwoOptionQuestion == QuestionWith(JInt(7), JInt(2))

GenQuestions == {<< >>, FiveQuestions, <<TwoOptionQuestion>>, <<Question(JInt(0)), NotDict>>}
QuizReplies ==
    FailedReplies \cup {[kind |-> "questions", questions |-> qs] : qs \in GenQuestions}

GoodCard == Card(Str(<<"q">>), Str(<<"a">>))
GenCards == {<< >>, <<GoodCard>>, <<GoodCard, GoodCard>>,
             <<GoodCard, Card(Absent, Str(<<"a">>))>>, <<NotDict>>}
CardReplies == FailedReplies \cup {[kind |-> "object", items |-> cs] : cs \in GenCards}

\* entries of the other games are handed on unread
GenGameItems == {<< >>, <<"item1">>, <<"item2", "item1">>}
GameReplies == FailedReplies \cup {[kind |-> "object", items |-> is] : is \in GenGameItems}

GenLetters ==
    {<< >>,
     <<LetterItem(Str(<<"A">>), Str(Agua), "starts")>>,
     <<LetterItem(Str(<<"A">>), Str(Agua), "starts"), LetterItem(NonStr, Str(Agua), "starts")>>,
     <<LetterItem(Str(<<"B">>), Str(Zorro), "starts")>>,
     <<LetterItem(Str(<<"a">>), Str(<<"sp", "a">>), "starts")>>,
     TwentySevenLetters}
LetterReplies == FailedReplies \cup {[kind |-> "object", items |-> ls] : ls \in GenLetters}

NextGen ==
    \/ \E email \in Emails, role \in Roles, class_code \in ClassCodeInputs :
           Register(email, role, class_code)
    \/ \E student_id \in StudentIdInputs, num_questions \in NumQuestionsInputs,
          llm \in QuizReplies : GenerateQuizCall(student_id, num_questions, llm)
    \/ \E student_id \in StudentIdInputs, num_cards \in NumCardsInputs,
          reply \in CardReplies : GenerateStudyCards(student_id, num_cards, reply)
    \/ \E student_id \in StudentIdInputs, reply \in LetterReplies :
           GeneratePasapalabra(student_id, reply)
    \/ \E student_id \in StudentIdInputs : PasapalabraDemo(student_id)
    \/ \E student_id \in StudentIdInputs, reply \in GameReplies :
           GenerateAtrapaMillon(student_id, reply)
    \/ \E student_id \in StudentIdInputs, reply \in GameReplies :
           GenerateEscapeRoom(student_id, reply)
    \/ \E student_id \in StudentIdInputs, reply \in GameReplies :
           GenerateAhorcado(student_id, reply)

SpecGen == Init /\ [][NextGen]_vars

(* ----------------------- reviewing study cards -------------------------- *)
\* the generator's replies to /api/cards/generate: one card, two cards, none
ReviewedCardReplies ==
    {[kind |-> "error"],
     [kind |-> "object", items |-> <<GoodCard>>],
     [kind |-> "object", items |-> <<GoodCard, GoodCard>>]}

NextCards ==
    \/ Register("a@x", "student", "")
    \/ \E reply \in ReviewedCardReplies : GenerateStudyCards(1, 2, reply)
    \/ \E card_id \in CardIdInputs, correct \in BOOLEAN : ReviewCard(card_id, correct)

SpecCards == Init /\ [][NextCards]_vars

(* ------------------------------ properties ------------------------------ *)
\* this step ran the submit_quiz handler for the waiting request
Handled(request) ==
    /\ BagIn(request, inflight)
    /\ inflight' = inflight (-) SetToBag({request})

SubmitResponse(status, quiz_id) ==
    /\ resp.op = "submit_quiz"
    /\ resp.status = status
    /\ resp.quiz_id = quiz_id

\* C1: a submit_quiz for a quiz id that does not exist answers 404, and once a
\* submit_quiz for a quiz id has succeeded every later submit_quiz for that id
\* answers 400, whatever its answers; neither changes a quiz.
C1_NotFoundAndAlreadyCompleted ==
    [][\A request \in BagToSet(inflight) : Handled(request) =>
          LET quiz_id == request.quiz_id
          IN  /\ quiz_id \notin Ids(quizzes) =>
                    /\ resp' = [op |-> "submit_quiz", status |-> 404, quiz_id |-> quiz_id]
                    /\ quizzes' = quizzes
              /\ (quiz_id \in Ids(quizzes) /\ scoreWrites[quiz_id] >= 1) =>
                    /\ resp' = [op |-> "submit_quiz", status |-> 400, quiz_id |-> quiz_id]
                    /\ quizzes' = quizzes]_vars

\* a second submit_quiz for a scored quiz has been answered 400
C1_Witness ==
    \E quiz_id \in Ids(quizzes) :
        /\ SubmitResponse(400, quiz_id)
        /\ scoreWrites[quiz_id] = 1
        /\ quizzes[quiz_id].completed

\* C2: of the submit_quiz requests waiting for one quiz at most one writes a
\* score: every quiz is scored at most once, it is completed exactly when it
\* has been scored, and a request run after the scoring answers 400 and writes
\* nothing.
C2_ScoredOnce ==
    [][/\ \A quiz_id \in Ids(quizzes') :
              /\ scoreWrites'[quiz_id] <= 1
              /\ quizzes'[quiz_id].completed <=> scoreWrites'[quiz_id] = 1
       /\ \A request \in BagToSet(inflight) :
              (Handled(request) /\ request.quiz_id \in Ids(quizzes)
                   /\ quizzes[request.quiz_id].completed) =>
                  /\ resp'.status = 400
                  /\ scoreWrites' = scoreWrites
                  /\ quizzes' = quizzes]_vars

\* a submit_quiz succeeded while another request for the same quiz was waiting
C2_Witness ==
    \E quiz_id \in Ids(quizzes) :
        /\ SubmitResponse(200, quiz_id)
        /\ raced
        /\ scoreWrites[quiz_id] = 1
        /\ \E other \in BagToSet(inflight) : other.quiz_id = quiz_id

\* C3: a quiz row is created with completed = False and no score; only a
\* submit_quiz answered 200 changes completed; no step removes a quiz or
\* changes a completed one (its flag and its score stay).
C3_Lifecycle ==
    [][/\ \A quiz_id \in Ids(quizzes) :
              /\ quiz_id \in Ids(quizzes')
              /\ quizzes[quiz_id].completed => quizzes'[quiz_id] = quizzes[quiz_id]
              /\ quizzes'[quiz_id].completed # quizzes[quiz_id].completed =>
                     \E request \in BagToSet(inflight) :
                         /\ Handled(request)
                         /\ request.quiz_id = quiz_id
                         /\ resp'.op = "submit_quiz" /\ resp'.status = 200
       /\ \A quiz_id \in Ids(quizzes') \ Ids(quizzes) :
              /\ ~quizzes'[quiz_id].completed
              /\ quizzes'[quiz_id].score = None]_vars

\* another handler ran after a quiz was completed with a non-zero score
C3_Witness ==
    /\ resp.op \in {"register", "generate_quiz"}
    /\ \E quiz_id \in Ids(quizzes) :
           quizzes[quiz_id].completed /\ quizzes[quiz_id].score # Zero

\* C4: a submit_quiz answered 200 stores calculate_score(quiz.questions,
\* answers) as the score and completed = True in that step and returns the
\* stored score; ten questions with seven matching answers give 70.
C4_SubmitStoresScore ==
    [][\A request \in BagToSet(inflight) :
          (Handled(request) /\ resp'.op = "submit_quiz" /\ resp'.status = 200) =>
              LET quiz_id == request.quiz_id
              IN  /\ ~quizzes[quiz_id].completed
                  /\ quizzes'[quiz_id].completed
                  /\ Returned(quizzes'[quiz_id].score) =
                         calculate_score(quizzes[quiz_id].questions, request.answers)
                  /\ resp'.score = quizzes'[quiz_id].score
                  /\ (quizzes[quiz_id].questions = TenQuestions /\ request.answers = TenAnswers)
                         => resp'.score = FromInt(70)]_vars

\* the ten-question quiz has been submitted with seven matches
C4_Witness ==
    \E quiz_id \in Ids(quizzes) :
        /\ SubmitResponse(200, quiz_id)
        /\ quizzes[quiz_id].questions = TenQuestions
        /\ quizzes[quiz_id].completed
        /\ quizzes[quiz_id].score = FromInt(70)
        /\ resp.score = FromInt(70)

\* calculate_score has been called on fq and fa and fret is its outcome
ScoreCalled == fpc # "init"

AllDicts(questions) == \A i \in 1..Len(questions) : questions[i] # NotDict

\* the indices at which an answer exists and equals the question's key
MatchingIndices(questions, answers) ==
    {i \in 1..Len(questions) :
        /\ i <= Len(answers)
        /\ questions[i] # NotDict
        /\ JInt(answers[i]) = questions[i].correct_answer}

Matches(questions, answers) == Cardinality(MatchingIndices(questions, answers))

Min(x, y) == IF x <= y THEN x ELSE y

\* two floats that are equal or neighbours
WithinOneUlp(x, y) ==
    \/ x = y
    \/ x # Zero /\ NextUp(x) = y
    \/ y # Zero /\ NextUp(y) = x

\* C5 as stated: for a non-empty list of question objects the result is
\* 100 * correct / len(questions), correct being the number of indices whose
\* answer exists and equals the key.
C5_AsStated ==
    (ScoreCalled /\ fq # << >> /\ AllDicts(fq)) =>
        fret = Returned(FDivInt(100 * Matches(fq, fa), Len(fq)))

\* C5 amended: for a non-empty list of question objects the result is
\* (correct / len(questions)) * 100 in binary64, the quotient rounded before
\* the product, correct being the number of indices whose answer exists and
\* equals the key; it is 100, 0 and 50 for all, none and half of the questions
\* right, and at most one unit in the last place from 100 * correct / len.
C5_QuotientTimesHundred ==
    (ScoreCalled /\ fq # << >> /\ AllDicts(fq)) =>
        LET correct == Matches(fq, fa)
            total   == Len(fq)
        IN  /\ fret = Returned(Percentage(correct, total))
            /\ WithinOneUlp(fret.value, FDivInt(100 * correct, total))
            /\ correct = total => fret.value = FromInt(100)
            /\ correct = 0 => fret.value = Zero
            /\ 2 * correct = total => fret.value = FromInt(50)

\* one right out of three: the result is not the float nearest to 100 / 3
C5_Witness ==
    /\ ScoreCalled /\ AllDicts(fq)
    /\ Len(fq) = 3 /\ Matches(fq, fa) = 1
    /\ fret.kind = "return"
    /\ fret.value # FDivInt(100, 3)
    /\ NextUp(fret.value) = FDivInt(100, 3)

\* C6: a length mismatch never makes calculate_score fail (it raises only on
\* an answered entry that is no object); answers past the last question do
\* not change the outcome; with fewer answers than questions the result is the
\* matches among the answered indices over the full number of questions.
C6_LengthMismatch ==
    ScoreCalled =>
        /\ fret = Raise <=>
               /\ fq # << >> /\ fa # << >>
               /\ \E i \in 1..Min(Len(fq), Len(fa)) : fq[i] = NotDict
        /\ fret = calculate_score(fq, SubSeq(fa, 1, Min(Len(fa), Len(fq))))
        /\ (Len(fa) < Len(fq) /\ fret # Raise) =>
               fret.value = Percentage(
                   Cardinality({i \in 1..Len(fa) :
                       fq[i] # NotDict /\ JInt(fa[i]) = fq[i].correct_answer}),
                   Len(fq))

\* fewer answers than questions, one of them right, and a score came back
C6_Witness ==
    /\ ScoreCalled
    /\ fa # << >> /\ Len(fa) < Len(fq)
    /\ fret.kind = "return"
    /\ fret.value # Zero

\* C7: every value calculate_score returns lies in [0, 100].
C7_ScoreRange ==
    (ScoreCalled /\ fret.kind = "return") =>
        /\ CmpRat(fret.value, 0, 1) >= 0
        /\ CmpRat(fret.value, 100, 1) <= 0

\* more answers than questions, one of them outside the options, score 100
C7_Witness ==
    /\ ScoreCalled
    /\ Len(fa) > Len(fq)
    /\ \E i \in 1..Len(fa) : fa[i] = 7
    /\ fret = Returned(FromInt(100))

\* C8: calculate_score returns 0.0 when the question list is empty and when
\* the answer list is empty.
C8_EmptyInputs ==
    (ScoreCalled /\ (fq = << >> \/ fa = << >>)) => fret = Returned(Zero)

\* called with no questions and some answers
C8_Witness ==
    /\ ScoreCalled
    /\ fq = << >> /\ fa # << >>
    /\ fret = Returned(Zero)

\* C9 as stated: exchanging the keys of two questions, answers kept, changes
\* the score.
C9_AsStated ==
    (fpc = "swapped" /\ fq # fprev.questions) => fret # fprev.ret

\* C9 amended: exchanging the keys of two questions, answers kept, changes the
\* score exactly when it changes the number of indices at which the answer
\* equals the key (keys 0,2 with answers 0,2: 100 before, 0 after; with
\* answers 0,0: 50 before and after).
C9_SwapChangesAlignedMatches ==
    fpc = "swapped" =>
        /\ fret = Raise <=> fprev.ret = Raise
        /\ fret # Raise =>
               (fret # fprev.ret <=> Matches(fq, fa) # Matches(fprev.questions, fa))

\* an exchange that took the score from 100 to 0
C9_Witness ==
    /\ fpc = "swapped"
    /\ fprev.ret = Returned(FromInt(100))
    /\ fret = Returned(Zero)

\* letter.upper() and answer.strip()[0].upper() agree
NormalizedInitialMatches(entry) ==
    LET letter == GetOrEmpty(entry.letter).str
        answer == GetOrEmpty(entry.answer).str
        solid  == {k \in 1..Len(answer) : answer[k] # "sp"}
    IN  /\ solid # {}
        /\ Len(letter) = 1
        /\ UpperChar(letter[1]) = UpperChar(answer[CHOOSE k \in solid : \A m \in solid : k <= m])

\* generate_pasapalabra has returned for a reply whose "letters" is a list
ValidatedBatch ==
    /\ gen.op = "generate_pasapalabra"
    /\ gen.ret # NotCalled
    /\ gen.reply.kind = "object"

\* the entries handed back
ReturnedLetters == gen.ret.value.items

StartsWithLetterUnaccented(entry) ==
    LET letter == GetOrEmpty(entry.letter).str
        answer == Strip(GetOrEmpty(entry.answer).str)
        Plain(c) == IF UpperChar(c) = "Aacute" THEN "A" ELSE UpperChar(c)
    IN  answer # << >> /\ <<Plain(answer[1])>> = [i \in 1..Len(letter) |-> Plain(letter[i])]

\* every entry of the batch is an object with a str letter and a str answer
WellFormedBatch == \A j \in 1..Len(gen.reply.items) : ~EntryRaises(gen.reply.items[j])

\* C12: the validator keeps an entry exactly when its answer starts with its
\* letter, an accented initial counting as its plain letter: of letter A with
\* answer Atomo (A acute) and letter B with answer Zorro only the first comes
\* back.
C12_KeepsExactlyMatchingEntries ==
    (ValidatedBatch /\ WellFormedBatch) =>
        /\ gen.ret.kind = "return"
        /\ ReturnedLetters = SelectSeq(gen.reply.items, StartsWithLetterUnaccented)
        /\ gen.reply.items = <<LetterItem(Str(<<"A">>), Str(Atomo), "starts"),
                               LetterItem(Str(<<"B">>), Str(Zorro), "starts")>> =>
               ReturnedLetters = <<LetterItem(Str(<<"A">>), Str(Atomo), "starts")>>

\* an entry the code itself accepts: str fields and matching initials
ValidEntry(entry) == ~EntryRaises(entry) /\ NormalizedInitialMatches(entry)

\* C13: validation is per entry: an invalid or malformed entry (wrong
\* initial, missing answer, missing or non-string letter) removes only itself,
\* and the valid entries of the batch come back, in order.
C13_PerEntryValidation ==
    ValidatedBatch =>
        /\ gen.ret.kind = "return"
        /\ ReturnedLetters = SelectSeq(gen.reply.items, ValidEntry)

\* the request answered last called a generation service
Generated == gen # NotCalled /\ resp.op = gen.op

ListOps == {"generate_quiz", "generate_study_cards"}
PassThroughOps == {"generate_atrapa_millon", "generate_escape_room", "generate_ahorcado"}

\* the list the service call returned; none when it returned no dict or a
\* dict without its collection
HasReturnedItems ==
    gen.op \in ListOps \/ (gen.ret.value.dict /\ gen.ret.value.has)
ReturnedItems ==
    IF gen.op \in ListOps THEN gen.ret.value ELSE gen.ret.value.items

\* C14: a generation call returns at most as many items as were requested:
\* at most 26 letters, at most num_questions questions, at most num_cards
\* cards, whatever the generator produced.
C14_AtMostRequested ==
    (Generated /\ gen.op \in ListOps \cup {"generate_pasapalabra"} /\ HasReturnedItems) =>
        Len(ReturnedItems) <= gen.requested

\* the words occur in the detail, one after the other
Contains(detail, words) ==
    \E k \in 0..(Len(detail) - Len(words)) :
        \A i \in 1..Len(words) : detail[k + i] = words[i]

\* C15: when the generation endpoint errors, or its text is no JSON or lacks
\* the expected field, generate_quiz and generate_study_cards return the
\* empty list and their handlers answer 500 with a detail containing
\* "No se pudieron generar".
C15_FailedGenerationGives500 ==
    (Generated /\ gen.op \in ListOps /\ gen.reply.kind \in {"error", "notjson", "nofield"}) =>
        /\ gen.ret = Returned(<< >>)
        /\ resp.status = 500
        /\ Contains(resp.detail, <<"No", "se", "pudieron", "generar">>)

\* the card generator replied with text that is no JSON
C15_Witness ==
    /\ Generated
    /\ gen.op = "generate_study_cards"
    /\ gen.reply.kind = "notjson"
    /\ resp.status = 500
    /\ resp.detail = NoCardsGenerated

\* the detail each endpoint gives when it has nothing to hand out
OwnDetail(op) ==
    CASE op = "generate_quiz" -> NoQuestionsGenerated
      [] op = "generate_study_cards" -> NoCardsGenerated
      [] op = "generate_pasapalabra" -> NoPasapalabra
      [] op = "generate_atrapa_millon" -> NoAtrapaMillon
      [] op = "generate_escape_room" -> NoEscapeRoom
      [] op = "generate_ahorcado" -> NoAhorcado

\* C16: for each of the six content types a failure of the generation call
\* or of JSON parsing, JSON that parses to no object included, becomes the
\* type's empty collection inside the service, and the request ends with the
\* endpoint's own error, not with an unhandled exception.
C16_FailuresBecomeEmptyCollections ==
    (Generated /\ gen.reply.kind \in {"error", "notjson", "number", "array"}) =>
        /\ gen.ret = IF gen.op \in ListOps THEN Returned(<< >>) ELSE Returned(GameData(<< >>))
        /\ resp.status = 500
        /\ resp.detail = OwnDetail(gen.op)

\* the collection the endpoint needs is there and is not empty
CollectionNonEmpty == HasReturnedItems /\ ReturnedItems # << >>

\* the response is {success, game, data}
GameShaped == {"success", "game", "data"} \subseteq DOMAIN resp

EntriesPass ==
    \A i \in 1..Len(ReturnedItems) :
        IF gen.op = "generate_quiz"
        THEN /\ ReturnedItems[i] # NotDict
             /\ ReturnedItems[i].correct_answer # None
             /\ ReturnedItems[i].options # None
        ELSE /\ ReturnedItems[i] # NotDict
             /\ ReturnedItems[i].question \notin {Absent, NonStr}
             /\ ReturnedItems[i].answer \notin {Absent, NonStr}

FourOptionQuestion(entry) ==
    /\ entry # NotDict
    /\ entry.options = JInt(4)
    /\ entry.correct_answer \in {JInt(k) : k \in 0..3}

\* C18: a successful generate_quiz call with num_questions=5 returns exactly 5
\* entries, each with exactly 4 options and a correct_answer in [0,3],
\* whatever the generator replied; so every stored quiz holds only such
\* questions.
C18_FiveWellFormedQuestions ==
    /\ (Generated /\ gen.op = "generate_quiz" /\ gen.requested = 5 /\ resp.status = 200) =>
           /\ Len(ReturnedItems) = 5
           /\ \A i \in 1..5 : FourOptionQuestion(ReturnedItems[i])
    /\ \A q \in 1..Len(quizzes) :
           \A i \in 1..Len(quizzes[q].questions) : FourOptionQuestion(quizzes[q].questions[i])

\* the generator's JSON parsed to an object holding the array
ParsedArray ==
    IF gen.op = "generate_quiz"
    THEN IF gen.reply.kind = "questions" THEN Returned(gen.reply.questions) ELSE NotCalled
    ELSE IF gen.reply.kind = "object" THEN Returned(gen.reply.items) ELSE NotCalled

\* C20: quiz, study-card, atrapa-millon, escape-room and hangman generation
\* filter no entry: when the generator's JSON parses to an object the items
\* returned are the parsed array, in its order, malformed entries included,
\* and the quiz /quiz/generate stores holds exactly that list.
C20_NoPerEntryFilter ==
    (Generated /\ gen.op \in ListOps \cup PassThroughOps /\ ParsedArray # NotCalled) =>
        /\ HasReturnedItems
        /\ ReturnedItems = ParsedArray.value
        /\ (gen.op = "generate_quiz" /\ ParsedArray.value # << >>) =>
               quizzes[Len(quizzes)].questions = ParsedArray.value

\* a one-question quiz with two options and key 7 was stored as generated
C20_Witness ==
    /\ Generated
    /\ gen.op = "generate_quiz"
    /\ gen.reply.kind = "questions"
    /\ gen.reply.questions = <<TwoOptionQuestion>>
    /\ quizzes # << >>
    /\ quizzes[Len(quizzes)].questions = <<TwoOptionQuestion>>

\* C19: delete_class on a class id that does not exist answers 404 and with
\* a teacher_id that is not the owner's answers 403, and both leave the
\* classes and every student's class_id as they were; a repeated quiz
\* submission answers 400.
C19_FailuresChangeNothing ==
    [][/\ \A class_id \in ClassIdInputs, teacher_id \in TeacherIdInputs :
              DeleteClass(class_id, teacher_id) =>
                  /\ (\A i \in Ids(classes) : i = class_id => ~classes[i].live) =>
                         /\ resp'.status = 404
                         /\ classes' = classes /\ students' = students
                  /\ (\E i \in Ids(classes) : i = class_id /\ classes[i].live
                          /\ classes[i].teacher_id # teacher_id) =>
                         /\ resp'.status = 403
                         /\ classes' = classes /\ students' = students
       /\ \A request \in BagToSet(inflight) :
              (Handled(request) /\ request.quiz_id \in Ids(quizzes)
                   /\ scoreWrites[request.quiz_id] >= 1) =>
                  resp'.status = 400]_vars

\* a delete_class by someone else than the owner was refused while a student
\* is enrolled in a class
C19_Witness ==
    /\ resp = [op |-> "delete_class", status |-> 403]
    /\ \E i \in Ids(students) : \E c \in LiveClasses : students[i].class_id = JInt(c)

\* the first character of the entry's answer is its letter, whatever the case
\* of the two
InitialIsLetter(entry) ==
    /\ entry.answer.str # << >>
    /\ <<UpperChar(entry.answer.str[1])>> = Upper(entry.letter.str)

\* the entries a Pasapalabra endpoint has just served
ServedLetters ==
    IF resp.op \in {"generate_pasapalabra", "pasapalabra_demo"} /\ resp.status = 200
    THEN resp.data.items
    ELSE << >>

\* C21: every entry served by a Pasapalabra endpoint, generated or demo, whose
\* type is "starts" has an answer whose first character equals its letter,
\* case-insensitively.
C21_ServedStartsEntriesMatch ==
    \A i \in 1..Len(ServedLetters) :
        ServedLetters[i].type = "starts" => InitialIsLetter(ServedLetters[i])

\* C22: in every state a stored quiz is completed if and only if its score
\* is set: a quiz just generated has no score and a completed one has one.
C22_CompletedIffScored ==
    \A quiz_id \in Ids(quizzes) :
        quizzes[quiz_id].completed <=> quizzes[quiz_id].score # None

\* a submit_quiz has just completed a quiz, which now has its score
C22_Witness ==
    \E quiz_id \in Ids(quizzes) :
        /\ SubmitResponse(200, quiz_id)
        /\ quizzes[quiz_id].completed
        /\ quizzes[quiz_id].score = resp.score

\* C23: a /quiz/generate or /cards/generate request that ends in an error
\* leaves the store as it was: no quiz row and no card row is created when
\* the student does not exist (404, no generation call made), when the
\* generated collection is empty (500), or when a card lacks its question
\* or answer (no part of the batch is stored).
C23_FailedGenerationStoresNothing ==
    [][(resp'.op \in ListOps /\ resp'.status >= 400) =>
           /\ quizzes' = quizzes
           /\ cards' = cards
           /\ resp'.status = 404 => gen' = NotCalled]_vars

\* C24: the correct_answers a submit_quiz reports is the number of indices at
\* which the submitted answer equals the question's correct_answer, for every
\* quiz length and number of matches, and total_questions is the number of
\* questions of the quiz.
C24_CorrectAnswersIsMatchCount ==
    [][\A request \in BagToSet(inflight) :
          (Handled(request) /\ resp'.op = "submit_quiz" /\ resp'.status = 200) =>
              LET questions == quizzes[request.quiz_id].questions
              IN  /\ resp'.correct_answers = Matches(questions, request.answers)
                  /\ resp'.total_questions = Len(questions)]_vars

\* the class_id is null or the id of a class of the table
EnrolledInExistingClass(student, table) ==
    \/ student.class_id = None
    \/ \E c \in 1..Len(table) : table[c].live /\ student.class_id = JInt(c)

\* C27: in every state each student's class_id is null or the id of an
\* existing class; register sets it only for role "student" with a
\* class_code of an existing class, an unknown code answers 404 and creates
\* no student.
C27_ClassIdNullOrExisting ==
    [][/\ \A i \in Ids(students') : EnrolledInExistingClass(students'[i], classes')
       /\ \A email \in ClassEmails, role \in Roles, class_code \in ClassCodeInputs :
              Register(email, role, class_code) =>
                  LET known == {c \in Ids(classes) :
                                   classes[c].live /\ classes[c].code = class_code}
                      fresh == \A i \in Ids(students) : students[i].email # email
                  IN  /\ (fresh /\ role = "student" /\ class_code # "" /\ known = {}) =>
                             (resp'.status = 404 /\ students' = students)
                      /\ students' # students =>
                             /\ Len(students') = Len(students) + 1
                             /\ students'[Len(students')].class_id # None =>
                                    /\ role = "student"
                                    /\ \E c \in known :
                                           students'[Len(students')].class_id = JInt(c)]_vars

\* a class was deleted, a class is left, and a student is in no class
C27_Witness ==
    /\ resp = [op |-> "delete_class", status |-> 200]
    /\ LiveClasses # {}
    /\ \E i \in Ids(students) : students[i].role = "student" /\ students[i].class_id = None

\* C28: no two stored students share an email; a register whose email is
\* already stored answers 400 and leaves the students as they were.
C28_EmailsUnique ==
    [][/\ \A i, j \in Ids(students') :
              students'[i].email = students'[j].email => i = j
       /\ \A email \in ClassEmails, role \in Roles, class_code \in ClassCodeInputs :
              (Register(email, role, class_code)
                   /\ \E i \in Ids(students) : students[i].email = email) =>
                  (resp'.status = 400 /\ students' = students)]_vars

\* a register with a stored email was refused while both emails are stored
C28_Witness ==
    /\ resp = [op |-> "register", status |-> 400]
    /\ Len(students) = 2

\* sub is seq with some entries left out, the others in their order
RECURSIVE IsSubsequence(_, _)
IsSubsequence(sub, seq) ==
    IF sub = << >> THEN TRUE
    ELSE IF seq = << >> THEN FALSE
    ELSE IF Head(sub) = Head(seq) /\ IsSubsequence(Tail(sub), Tail(seq)) THEN TRUE
    ELSE IsSubsequence(sub, Tail(seq))

\* the payload the filter handed back, as the object it would be parsed from
AsReply(game_data) ==
    IF "others" \in DOMAIN game_data
    THEN [kind |-> "object", items |-> game_data.items, others |-> game_data.others]
    ELSE [kind |-> "object", items |-> game_data.items]

\* C30: the Pasapalabra filter returns an order-preserving subsequence of the
\* parsed letters with each kept entry unmodified and every other key of the
\* payload untouched, and applying it to its own output gives that output.
C30_FilterSubsequenceIdempotent ==
    ValidatedBatch =>
        /\ gen.ret.kind = "return"
        /\ IsSubsequence(gen.ret.value.items, gen.reply.items)
        /\ ("others" \in DOMAIN gen.reply) =>
               /\ "others" \in DOMAIN gen.ret.value
               /\ gen.ret.value.others = gen.reply.others
        /\ generate_pasapalabra(AsReply(gen.ret.value)) = gen.ret

\* C26: every successful review_card adds one to times_reviewed of its card
\* and one to times_correct exactly when correct is true, a card starts with
\* both at 0 and nothing else changes them, so that after n reviews with k
\* correct the card has n and k; 0 <= times_correct <= times_reviewed in
\* every state and the accuracy reported lies in [0, 100]; review_card on a
\* card id that does not exist answers 404 and changes no card.
C26_ReviewCounters ==
    [][/\ \A card_id \in CardIdInputs, correct \in BOOLEAN :
              (resp'.op = "review_card" /\ ReviewCard(card_id, correct)) =>
                  IF card_id \in 1..Len(cards)
                  THEN /\ resp'.status = 200
                       /\ Len(cards') = Len(cards)
                       /\ cards'[card_id].times_reviewed = cards[card_id].times_reviewed + 1
                       /\ cards'[card_id].times_correct =
                              cards[card_id].times_correct + (IF correct THEN 1 ELSE 0)
                       /\ \A other \in 1..Len(cards) :
                              other # card_id => cards'[other] = cards[other]
                       /\ resp'.times_reviewed = cards'[card_id].times_reviewed
                       /\ resp'.times_correct = cards'[card_id].times_correct
                       /\ CmpRat(resp'.accuracy, 0, 1) >= 0
                       /\ CmpRat(resp'.accuracy, 100, 1) <= 0
                  ELSE resp'.status = 404 /\ cards' = cards
       /\ resp'.op # "review_card" =>
              \A i \in 1..Len(cards) : i <= Len(cards') /\ cards'[i] = cards[i]
       /\ \A i \in 1..Len(cards') :
              /\ i > Len(cards) =>
                     (cards'[i].times_reviewed = 0 /\ cards'[i].times_correct = 0)
              /\ 0 <= cards'[i].times_correct
              /\ cards'[i].times_correct <= cards'[i].times_reviewed]_vars

\* a card reviewed twice, once with correct=true: accuracy 50
C26_Witness ==
    /\ resp.op = "review_card"
    /\ resp.status = 200
    /\ cards[resp.card_id].times_reviewed = 2
    /\ cards[resp.card_id].times_correct = 1
    /\ resp.accuracy = FromInt(50)

\* the stored submissions of the pair
SubmissionsOf(table, activity_id, student_id) ==
    {row \in BagToSet(table) : row.activity_id = activity_id /\ row.student_id = student_id}

\* C25: after any sequence of submit_activity calls there is at most one
\* submission per (activity_id, student_id): the first call for a pair
\* creates the submission and every later one updates that record; a call
\* for an activity that does not exist answers 404 and creates nothing.
C25_OneSubmissionPerPair ==
    [][/\ \A r1, r2 \in BagToSet(submissions') :
              /\ CopiesIn(r1, submissions') = 1
              /\ (r1.activity_id = r2.activity_id /\ r1.student_id = r2.student_id) => r1 = r2
       /\ resp'.op = "submit_activity" =>
           \A activity_id \in ActivityIdInputs, student_id \in StudentIdInputs,
             content \in Contents :
              SubmitActivity(activity_id, student_id, content) =>
                  LET same == SubmissionsOf(submissions, activity_id, student_id)
                      others == BagToSet(submissions) \ same
                      exists == \E a \in 1..Len(activities) :
                                    a = activity_id /\ activities[a].live
                      new == [activity_id |-> activity_id, student_id |-> student_id,
                              content |-> content]
                  IN  /\ ~exists => (resp'.status = 404 /\ submissions' = submissions)
                      /\ exists =>
                             /\ resp'.status = 200
                             /\ BagToSet(submissions') = others \cup {new}
                             /\ BagCardinality(submissions') =
                                    BagCardinality(submissions) + (IF same = {} THEN 1 ELSE 0)]_vars

\* a second submission of a pair replaced the content of the first while
\* another student's submission of the activity is stored too
C25_Witness ==
    /\ resp = [op |-> "submit_activity", status |-> 200, success |-> TRUE]
    /\ BagCardinality(submissions) = 2
    /\ \E r1, r2 \in BagToSet(submissions) :
           /\ r1.activity_id = r2.activity_id
           /\ r1.student_id # r2.student_id
           /\ r1.content = "c2"

\* the messages of a conversation in the order of their creation
CreatedIn(table, conversation_id) ==
    SelectSeq(table, LAMBDA row : row.conversation_id = conversation_id)

\* C29: every chat call that passes its lookups appends exactly two messages
\* to the conversation, the user's message first and one assistant message
\* after it, also when the AI call fails (the assistant message then carries
\* the error text); the user message is committed before the AI call starts,
\* and the history sent to the AI is the last at most 10 messages of that
\* conversation in creation order, ending with the new user message.
C29_ChatAppendsUserThenAssistant ==
    [][/\ \A student_id \in StudentIdInputs, conversation_id \in ConversationIdInputs,
            message \in ChatMessages :
              (ChatStart(student_id, conversation_id, message) /\ chat' # NotCalled) =>
                  LET id == chat'.conversation_id
                      mine == CreatedIn(messages', id)
                      sent == chat'.messages_for_ai
                      n == IF Len(mine) <= 10 THEN Len(mine) ELSE 10
                      last == messages'[Len(messages')]
                  IN  /\ Len(messages') = Len(messages) + 1
                      /\ SubSeq(messages', 1, Len(messages)) = messages
                      /\ last.role = "user" /\ last.content = message
                      /\ last.conversation_id = id
                      /\ IF conversation_id # 0
                         THEN id = conversation_id /\ conversations' = conversations
                         ELSE id = Len(conversations) + 1 /\ Len(conversations') = id
                      /\ Len(sent) = n
                      /\ \A k \in 1..n :
                             sent[k] = [role |-> mine[Len(mine) - n + k].role,
                                        content |-> mine[Len(mine) - n + k].content]
                      /\ sent[n] = [role |-> "user", content |-> message]
       /\ chat' # NotCalled =>
              /\ messages'[Len(messages')].role = "user"
              /\ messages'[Len(messages')].conversation_id = chat'.conversation_id
              /\ chat'.user_message = Len(messages')
       /\ \A ai_response \in AIResponses :
              ChatFinish(ai_response) =>
                  LET last == messages'[Len(messages')]
                  IN  /\ Len(messages') = Len(messages) + 1
                      /\ SubSeq(messages', 1, Len(messages)) = messages
                      /\ last.role = "assistant" /\ last.content = ai_response
                      /\ last.conversation_id = chat.conversation_id
                      /\ messages[Len(messages)].role = "user"
                      /\ messages[Len(messages)].conversation_id = chat.conversation_id
                      /\ resp'.status = 200
                      /\ resp'.message = messages[Len(messages)]
                      /\ resp'.assistant_response = last
       /\ (messages' # messages /\ chat' = NotCalled) => chat # NotCalled
       /\ (chat' # NotCalled /\ chat # NotCalled) => UNCHANGED <<messages, chat>>]_vars

\* a chat call in a conversation of more than ten messages got the error
\* text of the AI service as its assistant message
C29_Witness ==
    /\ chat = NotCalled
    /\ Len(messages) > 0
    /\ messages[Len(messages)].role = "assistant"
    /\ messages[Len(messages)].content = AIErrorText
    /\ Len(CreatedIn(messages, messages[Len(messages)].conversation_id)) > 11

====
